---- MODULE Spec2Model ----
(***************************************************************************)
(* A model of the token library ljpx/jwt: the Token aggregate (Header,     *)
(* Body, Signature), its claim and scope operations, signing and           *)
(* verification through the Signer / Verifier contracts, and the wire      *)
(* form (Serialize / Parse).                                               *)
(*                                                                         *)
(* Text is modelled as a sequence of one-character strings, a []byte as a  *)
(* sequence of numbers 0..255.  JSON and base64url are computed character  *)
(* by character, as encoding/json and encoding/base64 compute them for the *)
(* values the model draws.                                                 *)
(***************************************************************************)
EXTENDS Integers, Sequences, FiniteSets, TLC

VARIABLES t, issued, last, wire, signedAs

vars == <<t, issued, last, wire, signedAs>>

(***************************************************************************)
(* Characters and bytes                                                    *)
(***************************************************************************)

\* The printable ASCII characters, code 32 first (code 96, the grave accent, is
\* written "grave": a string of the language cannot hold it).
AsciiPrintable ==
  << " ", "!", "\"", "#", "$", "%", "&", "'", "(", ")", "*", "+", ",", "-", ".", "/",
     "0", "1", "2", "3", "4", "5", "6", "7", "8", "9", ":", ";", "<", "=", ">", "?",
     "@", "A", "B", "C", "D", "E", "F", "G", "H", "I", "J", "K", "L", "M", "N", "O",
     "P", "Q", "R", "S", "T", "U", "V", "W", "X", "Y", "Z", "[", "\\", "]", "^", "_",
     "grave", "a", "b", "c", "d", "e", "f", "g", "h", "i", "j", "k", "l", "m", "n", "o",
     "p", "q", "r", "s", "t", "u", "v", "w", "x", "y", "z", "{", "|", "}", "~" >>

Chars == { AsciiPrintable[i] : i \in 1..Len(AsciiPrintable) }

\* The byte value of a character.
OrdOf == [ c \in Chars |-> 31 + (CHOOSE i \in 1..Len(AsciiPrintable) : AsciiPrintable[i] = c) ]

\* The character of a byte value (printable bytes only).
ChrOf == [ b \in 32..126 |-> AsciiPrintable[b - 31] ]

\* []byte(s): the bytes of a text.
BytesOf(s) == [ i \in 1..Len(s) |-> OrdOf[s[i]] ]

\* string(b) for a []byte of printable bytes.
TextOf(b) == [ i \in 1..Len(b) |-> ChrOf[b[i]] ]

IsPrintable(b) == \A i \in 1..Len(b) : b[i] \in 32..126

(***************************************************************************)
(* encoding/base64: RawURLEncoding (URL-safe alphabet, no padding)         *)
(***************************************************************************)

\* The URL-safe alphabet, value 0 first.
B64Alphabet ==
  << "A", "B", "C", "D", "E", "F", "G", "H", "I", "J", "K", "L", "M", "N", "O", "P",
     "Q", "R", "S", "T", "U", "V", "W", "X", "Y", "Z", "a", "b", "c", "d", "e", "f",
     "g", "h", "i", "j", "k", "l", "m", "n", "o", "p", "q", "r", "s", "t", "u", "v",
     "w", "x", "y", "z", "0", "1", "2", "3", "4", "5", "6", "7", "8", "9", "-", "_" >>

B64Chars == { B64Alphabet[i] : i \in 1..64 }

B64ValueOf == [ c \in B64Chars |-> (CHOOSE i \in 1..64 : B64Alphabet[i] = c) - 1 ]

Pow2(n) == IF n = 0 THEN 1 ELSE IF n = 1 THEN 2 ELSE IF n = 2 THEN 4
           ELSE IF n = 3 THEN 8 ELSE IF n = 4 THEN 16 ELSE IF n = 5 THEN 32
           ELSE IF n = 6 THEN 64 ELSE IF n = 7 THEN 128 ELSE IF n = 8 THEN 256
           ELSE IF n = 9 THEN 512 ELSE 1024

\* EncodeToString(b): character j holds bits 6j..6j+5 of the bytes, the last
\* group filled with zero bits; no padding characters are written.
B64Encode(b) ==
  LET n == Len(b)
      ByteAt(k) == IF k <= n THEN b[k] ELSE 0
      Sextet(j) ==
        LET o == 6 * (j - 1)
            k == (o \div 8) + 1
            r == o % 8
        IN  ((ByteAt(k) * 256 + ByteAt(k + 1)) \div Pow2(10 - r)) % 64
  IN  [ j \in 1..((n * 8 + 5) \div 6) |-> B64Alphabet[Sextet(j) + 1] ]

\* DecodeString(s): [ok, b].  A character outside the alphabet, or a length
\* that leaves a lone character, is a CorruptInputError; trailing bits of the
\* last character are not checked (the encoding is not Strict).
B64Decode(s) ==
  LET n == Len(s)
      Val(j) == IF j <= n THEN B64ValueOf[s[j]] ELSE 0
      Octet(i) ==
        LET o == 8 * (i - 1)
            j == (o \div 6) + 1
            r == o % 6
        IN  ((Val(j) * 64 + Val(j + 1)) \div Pow2(4 - r)) % 256
  IN  IF (\E j \in 1..n : s[j] \notin B64Chars) \/ n % 4 = 1
        THEN [ok |-> FALSE, b |-> << >>]
        ELSE [ok |-> TRUE, b |-> [ i \in 1..((n * 6) \div 8) |-> Octet(i) ]]

(***************************************************************************)
(* Go values held in a Body (interface{}), by dynamic type                 *)
(***************************************************************************)

\* One shape for every dynamic type: k is the type, the other fields hold
\* the value (s a text, n a number, ss a list of texts, l a list of values).
GoValue(k, s, n, ss, l) == [k |-> k, s |-> s, n |-> n, ss |-> ss, l |-> l]

GoString(s)      == GoValue("string", s, 0, << >>, << >>)
GoInt(n)         == GoValue("int", << >>, n, << >>, << >>)
\* A float64 holding the whole number n.
GoFloat64(n)     == GoValue("float64", << >>, n, << >>, << >>)
\* An int64 of more than nine digits, by its decimal text.
GoInt64(digits)  == GoValue("int64", digits, 0, << >>, << >>)
\* A float64 holding a whole number of more than nine digits, by its decimal text.
GoFloat64Wide(digits) == GoValue("float64", digits, 0, << >>, << >>)
GoBool(b)        == GoValue("bool", << >>, IF b THEN 1 ELSE 0, << >>, << >>)
GoNil            == GoValue("nil", << >>, 0, << >>, << >>)
\* A (non-nil) []string.
GoStringSlice(ss) == GoValue("[]string", << >>, 0, ss, << >>)
\* A (non-nil) []interface{}.
GoSlice(l)       == GoValue("[]interface{}", << >>, 0, << >>, l)
\* A map[string]interface{}: keys ss in increasing order, values l.
GoMap(ss, l)     == GoValue("map[string]interface{}", << >>, 0, ss, l)
\* A value encoding/json has no encoding for (a channel).
GoChan           == GoValue("chan", << >>, 0, << >>, << >>)

\* A Body: a Go map from claim name to value; a nil map reads as empty.
MakeBody(m) == [nil |-> FALSE, m |-> m]
EmptyMap    == [ x \in {} |-> GoNil ]
NilBody     == [nil |-> TRUE, m |-> EmptyMap]

\* A []byte: nil, or the bytes b.
NilBytes    == [nil |-> TRUE, b |-> << >>]
Bytes(b)    == [nil |-> FALSE, b |-> b]

(***************************************************************************)
(* encoding/json: Marshal                                                  *)
(***************************************************************************)

\* Bytewise order of two texts (maps are written with their keys sorted).
RECURSIVE LexLess(_, _)
LexLess(a, b) ==
  IF b = << >> THEN FALSE
  ELSE IF a = << >> THEN TRUE
  ELSE IF OrdOf[Head(a)] # OrdOf[Head(b)] THEN OrdOf[Head(a)] < OrdOf[Head(b)]
  ELSE LexLess(Tail(a), Tail(b))

RECURSIVE SortedKeys(_)
SortedKeys(S) ==
  IF S = {} THEN << >>
  ELSE LET lo == CHOOSE x \in S : \A y \in S \ {x} : LexLess(x, y)
       IN  <<lo>> \o SortedKeys(S \ {lo})

Digit(d) == ChrOf[48 + d]

RECURSIVE Digits(_)
Digits(n) == IF n < 10 THEN <<Digit(n)>> ELSE Digits(n \div 10) \o <<Digit(n % 10)>>

\* A whole number in decimal (an int, or a float64 of whole value below 1e21).
Decimal(n) == IF n < 0 THEN <<"-">> \o Digits(0 - n) ELSE Digits(n)

\* A whole number of more than nine digits is held in two parts: it is
\* hi * Limb + lo, with lo below Limb.
Limb == 10000 * 10000

Wide(hi, lo) == [hi |-> hi, lo |-> lo]

WideLess(a, b) == a.hi < b.hi \/ (a.hi = b.hi /\ a.lo < b.lo)

\* a + d, for a d between -Limb and Limb.
WideAdd(a, d) ==
  IF a.lo + d >= Limb THEN Wide(a.hi + 1, a.lo + d - Limb)
  ELSE IF a.lo + d < 0 THEN Wide(a.hi - 1, a.lo + d + Limb)
  ELSE Wide(a.hi, a.lo + d)

\* The number a text of at most nine digits stands for.
RECURSIVE NumberOf(_)
NumberOf(digits) ==
  IF digits = << >> THEN 0
  ELSE NumberOf(SubSeq(digits, 1, Len(digits) - 1)) * 10 + (OrdOf[digits[Len(digits)]] - 48)

\* The number a text of ten to seventeen digits stands for.
WideOf(digits) ==
  Wide(NumberOf(SubSeq(digits, 1, Len(digits) - 8)),
       NumberOf(SubSeq(digits, Len(digits) - 7, Len(digits))))

\* A number of more than eight digits in decimal.
WideText(a) ==
  LET low == Digits(a.lo)
  IN  Digits(a.hi) \o [ i \in 1..(8 - Len(low)) |-> "0" ] \o low

\* 2^53, 2^54: up to 2^53 a float64 holds every whole number, from 2^53 to
\* 2^54 the even ones, from 2^54 to 2^55 the multiples of 4.
TwoTo53 == Wide(90071992, 54740992)
TwoTo54 == Wide(180143985, 9481984)

\* a rounded to the nearest multiple of q (q is 2 or 4); of two nearest ones,
\* the one whose quotient by q is even.
RoundTo(a, q) ==
  LET r    == a.lo % q
      down == WideAdd(a, 0 - r)
      up   == WideAdd(down, q)
  IN  IF 2 * r < q THEN down
      ELSE IF 2 * r > q THEN up
      ELSE IF down.lo % (2 * q) = 0 THEN down ELSE up

\* strconv.ParseFloat for a whole number below 2^55: the nearest float64.
Float64Of(a) ==
  IF WideLess(a, TwoTo53) THEN a
  ELSE IF WideLess(a, TwoTo54) THEN RoundTo(a, 2)
  ELSE RoundTo(a, 4)

HexDigits == <<"0", "1", "2", "3", "4", "5", "6", "7", "8", "9", "a", "b", "c", "d", "e", "f">>

\* One character of a JSON string as Marshal writes it (HTML escaping on).
EscapeChar(c) ==
  IF c = "\"" THEN <<"\\", "\"">>
  ELSE IF c = "\\" THEN <<"\\", "\\">>
  ELSE IF c \in {"<", ">", "&"}
    THEN <<"\\", "u", "0", "0", HexDigits[(OrdOf[c] \div 16) + 1], HexDigits[(OrdOf[c] % 16) + 1]>>
  ELSE <<c>>

RECURSIVE Escape(_)
Escape(s) == IF s = << >> THEN << >> ELSE EscapeChar(Head(s)) \o Escape(Tail(s))

Quote(s) == <<"\"">> \o Escape(s) \o <<"\"">>

MarshalOk(text) == [ok |-> TRUE, text |-> text]
MarshalErr      == [ok |-> FALSE, text |-> << >>]

\* The texts parts[1], parts[2], ... joined by commas.
RECURSIVE JoinComma(_)
JoinComma(parts) ==
  IF parts = << >> THEN << >>
  ELSE IF Len(parts) = 1 THEN parts[1]
  ELSE parts[1] \o <<",">> \o JoinComma(Tail(parts))

\* json.Marshal of a value held in an interface{}.
RECURSIVE MarshalValue(_)
MarshalValue(v) ==
  CASE v.k = "string"  -> MarshalOk(Quote(v.s))
    [] v.k = "int"     -> MarshalOk(Decimal(v.n))
    [] v.k = "int64"   -> MarshalOk(v.s)
    [] v.k = "float64" -> MarshalOk(IF v.s # << >> THEN v.s ELSE Decimal(v.n))
    [] v.k = "bool"    -> MarshalOk(IF v.n = 1 THEN <<"t", "r", "u", "e">>
                                               ELSE <<"f", "a", "l", "s", "e">>)
    [] v.k = "nil"     -> MarshalOk(<<"n", "u", "l", "l">>)
    [] v.k = "[]string" ->
         MarshalOk(<<"[">> \o JoinComma([ i \in 1..Len(v.ss) |-> Quote(v.ss[i]) ]) \o <<"]">>)
    [] v.k = "[]interface{}" ->
         LET parts == [ i \in 1..Len(v.l) |-> MarshalValue(v.l[i]) ]
         IN  IF \E i \in 1..Len(parts) : ~parts[i].ok THEN MarshalErr
             ELSE MarshalOk(<<"[">> \o JoinComma([ i \in 1..Len(parts) |-> parts[i].text ])
                            \o <<"]">>)
    [] v.k = "map[string]interface{}" ->
         LET parts == [ i \in 1..Len(v.l) |-> MarshalValue(v.l[i]) ]
         IN  IF \E i \in 1..Len(parts) : ~parts[i].ok THEN MarshalErr
             ELSE MarshalOk(<<"{">>
                            \o JoinComma([ i \in 1..Len(parts) |->
                                             Quote(v.ss[i]) \o <<":">> \o parts[i].text ])
                            \o <<"}">>)
    [] OTHER -> MarshalErr

\* json.Marshal(body): a nil map is null; otherwise the members in key order.
MarshalBody(body) ==
  IF body.nil THEN MarshalOk(<<"n", "u", "l", "l">>)
  ELSE LET keys == SortedKeys(DOMAIN body.m)
       IN  MarshalValue(GoMap(keys, [ i \in 1..Len(keys) |-> body.m[keys[i]] ]))

\* json.Marshal(header): the fields in declaration order under their tags.
MarshalHeader(header) ==
  MarshalOk(<<"{">> \o Quote(<<"a", "l", "g">>) \o <<":">> \o Quote(header.Algorithm)
            \o <<",">> \o Quote(<<"t", "y", "p">>) \o <<":">> \o Quote(header.Type)
            \o <<"}">>)

(***************************************************************************)
(* encoding/json: Unmarshal.  The text is first read into a syntax tree,   *)
(* which is then stored into the destination (a Header or a Body).         *)
(* Not modelled, because no text of the model holds them: numbers with a   *)
(* fraction or an exponent, and escapes that stand for a character outside *)
(* printable ASCII; the reader reports both as errors.                     *)
(***************************************************************************)

\* A node of the syntax tree: k is the kind; an object keeps its members in
\* document order (keys[i] with value l[i]).
JNode(k, s, n, keys, l) == [k |-> k, s |-> s, n |-> n, keys |-> keys, l |-> l]
JNull == JNode("null", << >>, 0, << >>, << >>)

\* The element of a one-element set.  { e(x) : x \in {v} } computes v once
\* and uses its value throughout e.
TheOne(S) == CHOOSE x \in S : TRUE

ParseOk(j, next) == [ok |-> TRUE, j |-> j, next |-> next]
ParseErr         == [ok |-> FALSE, j |-> JNull, next |-> 0]

At(s, i) == IF i <= Len(s) THEN s[i] ELSE "EOF"

RECURSIVE SkipWs(_, _)
SkipWs(s, i) == IF At(s, i) = " " THEN SkipWs(s, i + 1) ELSE i

IsDigit(c) == c \in {"0", "1", "2", "3", "4", "5", "6", "7", "8", "9"}

HexValue(c) ==
  IF IsDigit(c) THEN OrdOf[c] - 48
  ELSE IF c \in {"a", "b", "c", "d", "e", "f"} THEN OrdOf[c] - 87
  ELSE IF c \in {"A", "B", "C", "D", "E", "F"} THEN OrdOf[c] - 55
  ELSE -1

\* The characters of a string literal from position i (after the opening
\* quote) up to its closing quote.
RECURSIVE ReadString(_, _, _)
ReadString(s, i, acc) ==
  LET c == At(s, i) IN
  IF c = "EOF" THEN ParseErr
  ELSE IF c = "\"" THEN ParseOk(JNode("string", acc, 0, << >>, << >>), i + 1)
  ELSE IF c = "\\" THEN
    LET e == At(s, i + 1) IN
    IF e \in {"\"", "\\", "/"} THEN ReadString(s, i + 2, Append(acc, e))
    ELSE IF e = "u" THEN
      LET h == [ d \in 1..4 |-> HexValue(At(s, i + 1 + d)) ]
          code == h[3] * 16 + h[4]
      IN  IF h[1] = 0 /\ h[2] = 0 /\ h[3] >= 0 /\ h[4] >= 0 /\ code \in 32..126
            THEN ReadString(s, i + 6, Append(acc, ChrOf[code]))
            ELSE ParseErr
    ELSE ParseErr
  ELSE ReadString(s, i + 1, Append(acc, c))

RECURSIVE ReadDigits(_, _, _)
ReadDigits(s, i, acc) ==
  IF IsDigit(At(s, i)) THEN ReadDigits(s, i + 1, acc * 10 + (OrdOf[s[i]] - 48))
  ELSE [n |-> acc, next |-> i]

\* The first position from i on that holds no digit.
RECURSIVE DigitsEnd(_, _)
DigitsEnd(s, i) == IF IsDigit(At(s, i)) THEN DigitsEnd(s, i + 1) ELSE i

\* A number: an optional minus sign, then 0 or a digit string without a leading 0.
\* A number of more than nine digits is kept as its text.
ReadNumber(s, i) ==
  LET neg   == At(s, i) = "-"
      first == IF neg THEN i + 1 ELSE i
      next  == DigitsEnd(s, first)
      d     == ReadDigits(s, first, 0)
  IN  IF ~IsDigit(At(s, first)) THEN ParseErr
      ELSE IF At(s, first) = "0" /\ next > first + 1 THEN ParseErr
      ELSE IF At(s, next) \in {".", "e", "E"} THEN ParseErr
      ELSE IF next - first > 9
        THEN ParseOk(JNode("number", SubSeq(s, i, next - 1), 0, << >>, << >>), next)
      ELSE ParseOk(JNode("number", << >>, IF neg THEN 0 - d.n ELSE d.n, << >>, << >>), d.next)

IsLiteral(s, i, word) == \A d \in 1..Len(word) : At(s, i + d - 1) = word[d]

RECURSIVE ReadValue(_, _)
RECURSIVE ReadValueAt(_, _)
RECURSIVE ReadElements(_, _, _)
RECURSIVE ReadMembers(_, _, _, _)

\* The elements of an array from position i (a value is expected there).
ReadElements(s, i, acc) ==
  TheOne({
    IF ~v.ok THEN ParseErr
    ELSE TheOne({
      IF At(s, j) = "," THEN ReadElements(s, j + 1, Append(acc, v.j))
      ELSE IF At(s, j) = "]"
        THEN ParseOk(JNode("array", << >>, 0, << >>, Append(acc, v.j)), j + 1)
      ELSE ParseErr
      : j \in { SkipWs(s, v.next) } })
    : v \in { ReadValue(s, i) } })

\* The members of an object from position i (a key is expected there).
ReadMembers(s, i, keys, vals) ==
  TheOne({
    IF ~key.ok THEN ParseErr
    ELSE TheOne({
      IF ~v.ok THEN ParseErr
      ELSE TheOne({
        IF At(s, j) = ","
          THEN ReadMembers(s, j + 1, Append(keys, key.j.s), Append(vals, v.j))
        ELSE IF At(s, j) = "}"
          THEN ParseOk(JNode("object", << >>, 0, Append(keys, key.j.s), Append(vals, v.j)),
                       j + 1)
        ELSE ParseErr
        : j \in { SkipWs(s, v.next) } })
      : v \in { LET c == SkipWs(s, key.next)
                IN  IF At(s, c) = ":" THEN ReadValue(s, c + 1) ELSE ParseErr } })
    : key \in { LET k0 == SkipWs(s, i)
                IN  IF At(s, k0) = "\"" THEN ReadString(s, k0 + 1, << >>) ELSE ParseErr } })

\* The value that starts at position p.
ReadValueAt(s, p) ==
  LET c == At(s, p)
  IN  IF c = "\"" THEN ReadString(s, p + 1, << >>)
      ELSE IF c = "-" \/ IsDigit(c) THEN ReadNumber(s, p)
      ELSE IF c = "[" THEN
        IF At(s, SkipWs(s, p + 1)) = "]"
          THEN ParseOk(JNode("array", << >>, 0, << >>, << >>), SkipWs(s, p + 1) + 1)
          ELSE ReadElements(s, p + 1, << >>)
      ELSE IF c = "{" THEN
        IF At(s, SkipWs(s, p + 1)) = "}"
          THEN ParseOk(JNode("object", << >>, 0, << >>, << >>), SkipWs(s, p + 1) + 1)
          ELSE ReadMembers(s, p + 1, << >>, << >>)
      ELSE IF IsLiteral(s, p, <<"t", "r", "u", "e">>)
        THEN ParseOk(JNode("true", << >>, 0, << >>, << >>), p + 4)
      ELSE IF IsLiteral(s, p, <<"f", "a", "l", "s", "e">>)
        THEN ParseOk(JNode("false", << >>, 0, << >>, << >>), p + 5)
      ELSE IF IsLiteral(s, p, <<"n", "u", "l", "l">>) THEN ParseOk(JNull, p + 4)
      ELSE ParseErr

\* The value that starts at or after position i.
ReadValue(s, i) ==
  TheOne({ ReadValueAt(s, p) : p \in { SkipWs(s, i) } })

\* The whole text as one JSON value (nothing but spaces may follow it).
ReadJson(s) ==
  TheOne({ TheOne({ IF v.ok /\ SkipWs(text, v.next) = Len(text) + 1 THEN v ELSE ParseErr
                    : v \in { ReadValue(text, 1) } })
           : text \in { s } })

\* The last position at which key k stands among the keys (a repeated key of
\* an object keeps its last value).
LastIndexOf(keys, k) ==
  CHOOSE i \in 1..Len(keys) : keys[i] = k /\ \A m \in (i + 1)..Len(keys) : keys[m] # k

\* The Go value Unmarshal stores into an interface{}: a number becomes a
\* float64, an array a []interface{}, an object a map[string]interface{}.
RECURSIVE ToInterface(_)
ToInterface(j) ==
  CASE j.k = "string" -> GoString(j.s)
    [] j.k = "number" ->
         IF j.s = << >> THEN GoFloat64(j.n)
         ELSE IF Head(j.s) = "-"
           THEN GoFloat64Wide(<<"-">> \o WideText(Float64Of(WideOf(Tail(j.s)))))
         ELSE GoFloat64Wide(WideText(Float64Of(WideOf(j.s))))
    [] j.k = "true"   -> GoBool(TRUE)
    [] j.k = "false"  -> GoBool(FALSE)
    [] j.k = "null"   -> GoNil
    [] j.k = "array"  -> GoSlice([ i \in 1..Len(j.l) |-> ToInterface(j.l[i]) ])
    [] j.k = "object" ->
         LET keys == SortedKeys({ j.keys[i] : i \in 1..Len(j.keys) })
         IN  GoMap(keys, [ i \in 1..Len(keys) |->
                             ToInterface(j.l[LastIndexOf(j.keys, keys[i])]) ])

\* json.Unmarshal(raw, &body) with body an empty map: an object fills the
\* map, null sets it to nil, any other value is an UnmarshalTypeError.
UnmarshalBody(text) ==
  TheOne({
    IF ~r.ok THEN [ok |-> FALSE, body |-> NilBody]
    ELSE IF r.j.k = "null" THEN [ok |-> TRUE, body |-> NilBody]
    ELSE IF r.j.k # "object" THEN [ok |-> FALSE, body |-> NilBody]
    ELSE LET keys == { r.j.keys[i] : i \in 1..Len(r.j.keys) }
         IN  [ok |-> TRUE,
              body |-> MakeBody([ k \in keys |->
                                    ToInterface(r.j.l[LastIndexOf(r.j.keys, k)]) ])]
    : r \in { ReadJson(text) } })

ToLower(c) == IF OrdOf[c] \in 65..90 THEN ChrOf[OrdOf[c] + 32] ELSE c

\* Whether an object key names the struct field tagged tag (letter case is
\* not significant).
KeyMatches(key, tag) ==
  Len(key) = Len(tag) /\ \A i \in 1..Len(key) : ToLower(key[i]) = tag[i]

\* The members from position i on stored into header h, in document order:
\* a string sets the field, null leaves it, any other value is an
\* UnmarshalTypeError (reported once the object has been read).
RECURSIVE StoreHeaderMembers(_, _, _)
StoreHeaderMembers(j, i, acc) ==
  IF i > Len(j.keys) THEN acc
  ELSE LET key == j.keys[i]
           v == j.l[i]
           field == IF KeyMatches(key, <<"a", "l", "g">>) THEN "Algorithm"
                    ELSE IF KeyMatches(key, <<"t", "y", "p">>) THEN "Type"
                    ELSE "none"
       IN  IF field = "none" \/ v.k = "null" THEN StoreHeaderMembers(j, i + 1, acc)
           ELSE IF v.k # "string"
             THEN StoreHeaderMembers(j, i + 1, [acc EXCEPT !.ok = FALSE])
           ELSE IF field = "Algorithm"
             THEN StoreHeaderMembers(j, i + 1, [acc EXCEPT !.header.Algorithm = v.s])
           ELSE StoreHeaderMembers(j, i + 1, [acc EXCEPT !.header.Type = v.s])

\* json.Unmarshal(raw, &header) with header the zero Header.
UnmarshalHeader(text) ==
  LET zero == [Algorithm |-> << >>, Type |-> << >>] IN
  TheOne({
    IF ~r.ok THEN [ok |-> FALSE, header |-> zero]
    ELSE IF r.j.k = "null" THEN [ok |-> TRUE, header |-> zero]
    ELSE IF r.j.k # "object" THEN [ok |-> FALSE, header |-> zero]
    ELSE StoreHeaderMembers(r.j, 1, [ok |-> TRUE, header |-> zero])
    : r \in { ReadJson(text) } })

(***************************************************************************)
(* The token                                                               *)
(***************************************************************************)

\* The supported signature types.
None  == <<"N", "o", "n", "e">>
ES256 == <<"E", "S", "2", "5", "6">>

JWT      == <<"J", "W", "T">>
ScopeKey == <<"s", "c", "o", "p", "e">>

MakeHeader(alg, typ) == [Algorithm |-> alg, Type |-> typ]

NewHeader == MakeHeader(None, JWT)

MakeToken(header, body, signature) ==
  [Header |-> header, Body |-> body, Signature |-> signature]

NewToken == MakeToken(NewHeader, MakeBody(EmptyMap), NilBytes)

\* IsSigned, were it to ask for a signature of at least one byte.
IsSignedNonEmpty(tok) == ~tok.Signature.nil /\ Len(tok.Signature.b) > 0

IsSigned(tok) == ~tok.Signature.nil

\* m[k] = v, as Go's map assignment.
MapSet(m, k, v) == [ x \in (DOMAIN m) \cup {k} |-> IF x = k THEN v ELSE m[x] ]

\* delete(m, k).
MapDelete(m, k) == [ x \in (DOMAIN m) \ {k} |-> m[x] ]

\* strings.TrimSpace: the text without its leading and trailing white space.
RECURSIVE TrimLeft(_)
TrimLeft(s) == IF s # << >> /\ Head(s) = " " THEN TrimLeft(Tail(s)) ELSE s

RECURSIVE TrimRight(_)
TrimRight(s) ==
  IF s # << >> /\ s[Len(s)] = " " THEN TrimRight(SubSeq(s, 1, Len(s) - 1)) ELSE s

TrimSpace(s) == TrimRight(TrimLeft(s))

\* t.Body["scope"].([]string): [ok, ss], ok false when the key is absent or
\* holds a value of another dynamic type.
ScopesOf(tok) ==
  IF ScopeKey \in DOMAIN tok.Body.m /\ tok.Body.m[ScopeKey].k = "[]string"
    THEN [ok |-> TRUE, ss |-> tok.Body.m[ScopeKey].ss]
    ELSE [ok |-> FALSE, ss |-> << >>]

\* The result of a mutating call: the token afterwards, and whether the call
\* panicked (an assignment to an entry of a nil map).
Done(tok)     == [tok |-> tok, panic |-> FALSE]
Panicked(tok) == [tok |-> tok, panic |-> TRUE]

AddScopeOp(tok, scope) ==
  IF IsSigned(tok) THEN Done(tok)
  ELSE LET scopes == Append(ScopesOf(tok).ss, TrimSpace(scope))
       IN  IF tok.Body.nil THEN Panicked(tok)
           ELSE Done([tok EXCEPT !.Body.m = MapSet(@, ScopeKey, GoStringSlice(scopes))])

\* The last position of the list that holds scope, 0 when none does (a scan
\* that does not stop at the first match).
LastMatchOf(ss, scope) ==
  IF \E i \in 1..Len(ss) : ss[i] = scope
    THEN CHOOSE i \in 1..Len(ss) : ss[i] = scope /\ \A m \in (i + 1)..Len(ss) : ss[m] # scope
    ELSE 0

\* The first position of the list that holds scope, 0 when none does.
FirstIndexOf(ss, scope) ==
  IF \E i \in 1..Len(ss) : ss[i] = scope
    THEN CHOOSE i \in 1..Len(ss) : ss[i] = scope /\ \A m \in 1..(i - 1) : ss[m] # scope
    ELSE 0

\* scopes[i], scopes[last] = scopes[last], scopes[i]; scopes[:last].
SwapRemove(ss, i) == [ m \in 1..(Len(ss) - 1) |-> IF m = i THEN ss[Len(ss)] ELSE ss[m] ]

\* RemoveScope without its IsSigned guard.
RemoveScopeOpUnguarded(tok, scope) ==
  LET scopes == ScopesOf(tok)
      i == FirstIndexOf(scopes.ss, TrimSpace(scope))
  IN  IF ~scopes.ok \/ i = 0 THEN Done(tok)
      ELSE Done([tok EXCEPT !.Body.m =
                   MapSet(@, ScopeKey, GoStringSlice(SwapRemove(scopes.ss, i)))])

RemoveScopeOp(tok, scope) ==
  IF IsSigned(tok) THEN Done(tok)
  ELSE LET scopes == ScopesOf(tok)
           i == FirstIndexOf(scopes.ss, TrimSpace(scope))
       IN  IF ~scopes.ok \/ i = 0 THEN Done(tok)
           ELSE Done([tok EXCEPT !.Body.m =
                        MapSet(@, ScopeKey, GoStringSlice(SwapRemove(scopes.ss, i)))])

\* HasScope, were it to trim the queried value as AddScope trims the added one.
HasScopeOpTrimmed(tok, scope) ==
  LET scopes == ScopesOf(tok)
  IN  scopes.ok /\ \E i \in 1..Len(scopes.ss) : scopes.ss[i] = TrimSpace(scope)

HasScopeOp(tok, scope) ==
  LET scopes == ScopesOf(tok)
  IN  scopes.ok /\ \E i \in 1..Len(scopes.ss) : scopes.ss[i] = scope

\* AddClaim that leaves a signed token alone.
AddClaimOpGuarded(tok, name, value) ==
  IF name = ScopeKey \/ IsSigned(tok) THEN Done(tok)
  ELSE IF tok.Body.nil THEN Panicked(tok)
  ELSE Done([tok EXCEPT !.Body.m = MapSet(@, name, value)])

\* AddClaim that keeps the value of a claim already present.
AddClaimOpKeepsOld(tok, name, value) ==
  IF name = ScopeKey \/ name \in DOMAIN tok.Body.m THEN Done(tok)
  ELSE IF tok.Body.nil THEN Panicked(tok)
  ELSE Done([tok EXCEPT !.Body.m = MapSet(@, name, value)])

AddClaimOp(tok, name, value) ==
  IF name = ScopeKey THEN Done(tok)
  ELSE IF tok.Body.nil THEN Panicked(tok)
  ELSE Done([tok EXCEPT !.Body.m = MapSet(@, name, value)])

RemoveClaimOp(tok, name) ==
  IF name = ScopeKey THEN Done(tok)
  ELSE Done([tok EXCEPT !.Body.m = MapDelete(@, name)])

\* GetClaim without its guard on the reserved name.
GetClaimOpUnguarded(tok, name) ==
  IF name \notin DOMAIN tok.Body.m
    THEN [value |-> GoNil, ok |-> FALSE]
    ELSE [value |-> tok.Body.m[name], ok |-> TRUE]

\* (value, ok).
GetClaimOp(tok, name) ==
  IF name = ScopeKey \/ name \notin DOMAIN tok.Body.m
    THEN [value |-> GoNil, ok |-> FALSE]
    ELSE [value |-> tok.Body.m[name], ok |-> TRUE]

\* (str, ok).
GetStringClaimOp(tok, name) ==
  LET got == GetClaimOp(tok, name)
  IN  IF ~got.ok THEN [str |-> << >>, ok |-> FALSE]
      ELSE IF got.value.k = "string" THEN [str |-> got.value.s, ok |-> TRUE]
      ELSE [str |-> << >>, ok |-> FALSE]

\* serializeHeaderAndBody that encodes an empty body whatever the body holds.
serializeHeaderAndBodyDropsBody(header, body) ==
  LET rawHeader == MarshalHeader(header)
      rawBody   == MarshalBody(MakeBody(EmptyMap))
  IN  IF ~rawHeader.ok \/ ~rawBody.ok THEN [ok |-> FALSE, text |-> << >>]
      ELSE [ok |-> TRUE,
            text |-> B64Encode(BytesOf(rawHeader.text)) \o <<".">>
                     \o B64Encode(BytesOf(rawBody.text))]

\* b64(json(header)) "." b64(json(body)): [ok, text].
serializeHeaderAndBody(header, body) ==
  LET rawHeader == MarshalHeader(header)
      rawBody   == MarshalBody(body)
  IN  IF ~rawHeader.ok \/ ~rawBody.ok THEN [ok |-> FALSE, text |-> << >>]
      ELSE [ok |-> TRUE,
            text |-> B64Encode(BytesOf(rawHeader.text)) \o <<".">>
                     \o B64Encode(BytesOf(rawBody.text))]

\* (string, error): [ok, text].
SerializeOp(tok) ==
  LET b64HeaderAndBody == serializeHeaderAndBody(tok.Header, tok.Body)
  IN  IF ~b64HeaderAndBody.ok THEN [ok |-> FALSE, text |-> << >>]
      ELSE [ok |-> TRUE,
            text |-> b64HeaderAndBody.text \o <<".">> \o B64Encode(tok.Signature.b)]

\* strings.Split(s, "."): the segments between the dots.
Split(s) ==
  LET dots   == { i \in 1..Len(s) : s[i] = "." }
      dot(k) == IF k = 0 THEN 0
                ELSE IF k > Cardinality(dots) THEN Len(s) + 1
                ELSE CHOOSE i \in dots : Cardinality({ j \in dots : j < i }) = k - 1
  IN  [ k \in 1..(Cardinality(dots) + 1) |-> SubSeq(s, dot(k - 1) + 1, dot(k) - 1) ]

\* (nil, err): no token is returned.
ParseFailed(err) == [err |-> err, nil |-> TRUE, tok |-> NewToken]

\* Parse that reads the header's JSON before it decodes the other segments.
ParseHeaderFirst(tokenString) ==
  TheOne({
    IF Len(spl) # 3 THEN ParseFailed("ErrInvalidTokenStructure")
    ELSE TheOne({
      IF ~rawHeader.ok THEN ParseFailed("base64.CorruptInputError")
      ELSE IF ~header.ok THEN ParseFailed("json error")
      ELSE IF ~rawBody.ok THEN ParseFailed("base64.CorruptInputError")
      ELSE IF ~rawSignature.ok THEN ParseFailed("base64.CorruptInputError")
      ELSE IF ~body.ok THEN ParseFailed("json error")
      ELSE [err |-> "nil", nil |-> FALSE,
            tok |-> MakeToken(header.header, body.body, Bytes(rawSignature.b))]
      : header \in { UnmarshalHeader(TextOf(B64Decode(spl[1]).b)) },
        body \in { UnmarshalBody(TextOf(B64Decode(spl[2]).b)) },
        rawHeader \in { B64Decode(spl[1]) }, rawBody \in { B64Decode(spl[2]) },
        rawSignature \in { B64Decode(spl[3]) } })
    : spl \in { Split(tokenString) } })

\* Parse(tokenString): [err, nil, tok], err "nil" on success.  A decoded segment
\* is a non-nil []byte even when it is empty.
Parse(tokenString) ==
  TheOne({
    IF Len(spl) # 3 THEN ParseFailed("ErrInvalidTokenStructure")
    ELSE TheOne({
      IF ~rawHeader.ok THEN ParseFailed("base64.CorruptInputError")
      ELSE IF ~rawBody.ok THEN ParseFailed("base64.CorruptInputError")
      ELSE IF ~rawSignature.ok THEN ParseFailed("base64.CorruptInputError")
      ELSE TheOne({
        IF ~header.ok THEN ParseFailed("json error")
        ELSE IF ~body.ok THEN ParseFailed("json error")
        ELSE [err |-> "nil", nil |-> FALSE,
              tok |-> MakeToken(header.header, body.body, Bytes(rawSignature.b))]
        : header \in { IF IsPrintable(rawHeader.b) THEN UnmarshalHeader(TextOf(rawHeader.b))
                        ELSE [ok |-> FALSE, header |-> MakeHeader(<< >>, << >>)] },
          body \in { IF IsPrintable(rawBody.b) THEN UnmarshalBody(TextOf(rawBody.b))
                      ELSE [ok |-> FALSE, body |-> NilBody] } })
      : rawHeader \in { B64Decode(spl[1]) }, rawBody \in { B64Decode(spl[2]) },
        rawSignature \in { B64Decode(spl[3]) } })
    : spl \in { Split(tokenString) } })

(***************************************************************************)
(* Signers and verifiers.  ECDSA over P-256 with SHA-256 is modelled as an *)
(* ideal signature scheme: the digest stands for its message (no           *)
(* collisions), signing draws a fresh pair (r, s), and a pair verifies     *)
(* under a key for a message exactly when that key's signer issued it for  *)
(* that message.  issued is the set of pairs issued so far.                *)
(***************************************************************************)

\* The number of key pairs and of pairs (r, s) the random source can yield.
NumKeys   == 2
NumNonces == 2

\* The width of r and of s in an ES256 signature, and the signature's length.
ES256HalfLen == 32
ES256SigLen  == 64

\* A big.Int that is not negative: its words, the least significant first,
\* the last one not 0 (none for 0).  A word holds 16 bits here.
Zero == << >>

\* The pairs (r, s) signing can draw: r takes two bytes, s one.
SigPairs == { [r |-> <<255 + i>>, s |-> <<i>>] : i \in 1..NumNonces }

\* sha256.Sum256([]byte(text)).
Sum256(text) == [sha256 |-> BytesOf(text)]

\* The bytes from the first one that is not 0 on.
StripZeros(b) ==
  LET nz == { i \in 1..Len(b) : b[i] # 0 }
  IN  IF nz = {} THEN << >>
      ELSE SubSeq(b, CHOOSE i \in nz : \A j \in nz : i <= j, Len(b))

\* big.Int.Bytes(): the big-endian bytes of n, without leading zero bytes
\* (none for 0).
BigBytes(n) ==
  StripZeros([ i \in 1..(2 * Len(n)) |->
                 LET word == n[Len(n) - ((i - 1) \div 2)]
                 IN  IF i % 2 = 1 THEN word \div 256 ELSE word % 256 ])

\* big.Int.SetBytes(b): the number whose big-endian bytes are b.
SetBytes(b) ==
  LET c == StripZeros(b)
      FromEnd(j) == IF j <= Len(c) THEN c[Len(c) + 1 - j] ELSE 0
  IN  [ i \in 1..((Len(c) + 1) \div 2) |-> FromEnd(2 * i) * 256 + FromEnd(2 * i - 1) ]

\* A padding that puts the zero bytes behind the number.
RightPad(b) == b \o [ i \in 1..(ES256HalfLen - Len(b)) |-> 0 ]

\* append(make([]byte, 32-len(b)), b...).
LeftPad(b) == [ i \in 1..(ES256HalfLen - Len(b)) |-> 0 ] \o b

\* What ecdsa.Sign can return for a key and a digest: an error, or a pair
\* that has not been issued for another key or digest.
EcdsaSignOutcomes(key, hash) ==
  { [err |-> TRUE, r |-> Zero, s |-> Zero, sig |-> NilBytes] }
    \cup { [err |-> FALSE, r |-> p.r, s |-> p.s, sig |-> NilBytes] :
             p \in { q \in SigPairs :
                       \A i \in issued :
                         (i.r = q.r /\ i.s = q.s) => (i.key = key /\ i.hash = hash) } }

\* ecdsa.Verify(publicKey, hash, r, s).
EcdsaVerify(key, hash, r, s) ==
  [key |-> key, hash |-> hash, r |-> r, s |-> s] \in issued

\* ES256Signer.Sign, given what ecdsa.Sign returned: (signature, error).
ES256SignerSign(key, b64HeaderAndBody, outcome) ==
  IF outcome.err THEN [err |-> "ecdsa error", sig |-> NilBytes]
  ELSE [err |-> "nil",
        sig |-> Bytes(LeftPad(BigBytes(outcome.r)) \o LeftPad(BigBytes(outcome.s)))]

ES256VerifierVerify(key, b64HeaderAndBody, signature) ==
  IF Len(signature) # ES256SigLen THEN FALSE
  ELSE EcdsaVerify(key, Sum256(b64HeaderAndBody),
                   SetBytes(SubSeq(signature, 1, ES256HalfLen)),
                   SetBytes(SubSeq(signature, ES256HalfLen + 1, ES256SigLen)))

\* The implementations of Signer: an ES256Signer per key pair, and one
\* other implementation, which reports another algorithm and may return
\* any bytes or an error.
ES256Signer(key) == [impl |-> "ES256Signer", key |-> key]
OtherSigner      == [impl |-> "OtherSigner", key |-> 0]
HS256            == <<"H", "S", "2", "5", "6">>

SignerAlgorithm(signer) == IF signer.impl = "ES256Signer" THEN ES256 ELSE HS256

\* What the signer's backend can do on this input.
SignerOutcomes(signer, b64HeaderAndBody) ==
  IF signer.impl = "ES256Signer"
    THEN EcdsaSignOutcomes(signer.key, Sum256(b64HeaderAndBody))
    ELSE { [err |-> TRUE, r |-> Zero, s |-> Zero, sig |-> NilBytes],
           [err |-> FALSE, r |-> Zero, s |-> Zero, sig |-> NilBytes],
           [err |-> FALSE, r |-> Zero, s |-> Zero, sig |-> Bytes(<< >>)],
           [err |-> FALSE, r |-> Zero, s |-> Zero, sig |-> Bytes(<<1, 2, 3, 4>>)] }

\* signer.Sign(b64HeaderAndBody): (signature, error).
SignerSign(signer, b64HeaderAndBody, outcome) ==
  IF signer.impl = "ES256Signer"
    THEN ES256SignerSign(signer.key, b64HeaderAndBody, outcome)
    ELSE [err |-> IF outcome.err THEN "signer error" ELSE "nil",
          sig |-> IF outcome.err THEN NilBytes ELSE outcome.sig]

\* The implementations of Verifier: an ES256Verifier per key pair, and one
\* that accepts every signature.
ES256Verifier(key) == [impl |-> "ES256Verifier", key |-> key]
AcceptAll          == [impl |-> "AcceptAll", key |-> 0]

\* verifier.Verify(b64HeaderAndBody, signature).
VerifierVerify(verifier, b64HeaderAndBody, signature) ==
  IF verifier.impl = "ES256Verifier"
    THEN ES256VerifierVerify(verifier.key, b64HeaderAndBody, signature)
    ELSE TRUE

\* Sign that signs the header the token holds, not the new one.
SignOpSignsOldHeader(tok, signer, outcome) ==
  LET newHeader == MakeHeader(SignerAlgorithm(signer), tok.Header.Type)
      b64HeaderAndBody == serializeHeaderAndBody(tok.Header, tok.Body)
      signed == SignerSign(signer, b64HeaderAndBody.text, outcome)
  IN  IF IsSigned(tok)
        THEN [tok |-> tok, err |-> "ErrImmutable", called |-> FALSE, input |-> << >>]
      ELSE IF ~b64HeaderAndBody.ok
        THEN [tok |-> tok, err |-> "json.UnsupportedTypeError", called |-> FALSE,
              input |-> << >>]
      ELSE IF signed.err # "nil"
        THEN [tok |-> tok, err |-> signed.err, called |-> TRUE,
              input |-> b64HeaderAndBody.text]
      ELSE [tok |-> [tok EXCEPT !.Header = newHeader, !.Signature = signed.sig],
            err |-> "nil", called |-> TRUE, input |-> b64HeaderAndBody.text]

\* Sign without its IsSigned guard.
SignOpUnguarded(tok, signer, outcome) ==
  LET newHeader == MakeHeader(SignerAlgorithm(signer), tok.Header.Type)
      b64HeaderAndBody == serializeHeaderAndBody(newHeader, tok.Body)
      signed == SignerSign(signer, b64HeaderAndBody.text, outcome)
  IN  IF ~b64HeaderAndBody.ok
        THEN [tok |-> tok, err |-> "json.UnsupportedTypeError", called |-> FALSE,
              input |-> << >>]
      ELSE IF signed.err # "nil"
        THEN [tok |-> tok, err |-> signed.err, called |-> TRUE,
              input |-> b64HeaderAndBody.text]
      ELSE [tok |-> [tok EXCEPT !.Header = newHeader, !.Signature = signed.sig],
            err |-> "nil", called |-> TRUE, input |-> b64HeaderAndBody.text]

\* Sign that stores the new header before it calls the signer.
SignOpHeaderFirst(tok, signer, outcome) ==
  LET newHeader == MakeHeader(SignerAlgorithm(signer), tok.Header.Type)
      b64HeaderAndBody == serializeHeaderAndBody(newHeader, tok.Body)
      signed == SignerSign(signer, b64HeaderAndBody.text, outcome)
  IN  IF IsSigned(tok)
        THEN [tok |-> tok, err |-> "ErrImmutable", called |-> FALSE, input |-> << >>]
      ELSE IF ~b64HeaderAndBody.ok
        THEN [tok |-> tok, err |-> "json.UnsupportedTypeError", called |-> FALSE,
              input |-> << >>]
      ELSE IF signed.err # "nil"
        THEN [tok |-> [tok EXCEPT !.Header = newHeader], err |-> signed.err,
              called |-> TRUE, input |-> b64HeaderAndBody.text]
      ELSE [tok |-> [tok EXCEPT !.Header = newHeader, !.Signature = signed.sig],
            err |-> "nil", called |-> TRUE, input |-> b64HeaderAndBody.text]

\* Sign that gives the new header the type "JWT".
SignOpDefaultType(tok, signer, outcome) ==
  LET newHeader == MakeHeader(SignerAlgorithm(signer), JWT)
      b64HeaderAndBody == serializeHeaderAndBody(newHeader, tok.Body)
      signed == SignerSign(signer, b64HeaderAndBody.text, outcome)
  IN  IF IsSigned(tok)
        THEN [tok |-> tok, err |-> "ErrImmutable", called |-> FALSE, input |-> << >>]
      ELSE IF ~b64HeaderAndBody.ok
        THEN [tok |-> tok, err |-> "json.UnsupportedTypeError", called |-> FALSE,
              input |-> << >>]
      ELSE IF signed.err # "nil"
        THEN [tok |-> tok, err |-> signed.err, called |-> TRUE,
              input |-> b64HeaderAndBody.text]
      ELSE [tok |-> [tok EXCEPT !.Header = newHeader, !.Signature = signed.sig],
            err |-> "nil", called |-> TRUE, input |-> b64HeaderAndBody.text]

\* Token.Sign, given what the signer's backend does: the token afterwards,
\* the error returned, whether signer.Sign was called and on what input.
SignOp(tok, signer, outcome) ==
  LET newHeader == MakeHeader(SignerAlgorithm(signer), tok.Header.Type)
      b64HeaderAndBody == serializeHeaderAndBody(newHeader, tok.Body)
      signed == SignerSign(signer, b64HeaderAndBody.text, outcome)
  IN  IF IsSigned(tok)
        THEN [tok |-> tok, err |-> "ErrImmutable", called |-> FALSE, input |-> << >>]
      ELSE IF ~b64HeaderAndBody.ok
        THEN [tok |-> tok, err |-> "json.UnsupportedTypeError", called |-> FALSE,
              input |-> << >>]
      ELSE IF signed.err # "nil"
        THEN [tok |-> tok, err |-> signed.err, called |-> TRUE,
              input |-> b64HeaderAndBody.text]
      ELSE [tok |-> [tok EXCEPT !.Header = newHeader, !.Signature = signed.sig],
            err |-> "nil", called |-> TRUE, input |-> b64HeaderAndBody.text]

\* Verify without its IsSigned guard.
VerifyOpUnguarded(tok, verifier) ==
  LET b64HeaderAndBody == serializeHeaderAndBody(tok.Header, tok.Body)
  IN  IF ~b64HeaderAndBody.ok THEN [ok |-> FALSE, called |-> FALSE, input |-> << >>]
      ELSE [ok |-> VerifierVerify(verifier, b64HeaderAndBody.text, tok.Signature.b),
            called |-> TRUE, input |-> b64HeaderAndBody.text]

\* Token.Verify: the result, whether verifier.Verify was called and on what.
VerifyOp(tok, verifier) ==
  LET b64HeaderAndBody == serializeHeaderAndBody(tok.Header, tok.Body)
  IN  IF ~IsSigned(tok) THEN [ok |-> FALSE, called |-> FALSE, input |-> << >>]
      ELSE IF ~b64HeaderAndBody.ok THEN [ok |-> FALSE, called |-> FALSE, input |-> << >>]
      ELSE [ok |-> VerifierVerify(verifier, b64HeaderAndBody.text, tok.Signature.b),
            called |-> TRUE, input |-> b64HeaderAndBody.text]

(***************************************************************************)
(* The state machine.  t is the token; last records the latest call (its   *)
(* arguments, what it returned, and the token before the call); wire is    *)
(* the text the latest Serialize returned; signedAs remembers the latest   *)
(* successful Sign (the signer, the input it signed and the token as Sign  *)
(* left it).                                                               *)
(***************************************************************************)

\* The record of a call: the fields a call does not use keep these values.
NoCall ==
  [op |-> "NewToken", scope |-> << >>, name |-> << >>, value |-> GoNil,
   signer |-> OtherSigner, verifier |-> AcceptAll, bytes |-> NilBytes,
   input |-> << >>, called |-> FALSE, ok |-> FALSE, retValue |-> GoNil,
   retText |-> << >>, err |-> "nil", panic |-> FALSE, pre |-> NewToken]

Call(op) == [NoCall EXCEPT !.op = op, !.pre = t]

NeverSigned == [done |-> FALSE, signer |-> OtherSigner, input |-> << >>, tok |-> NewToken]

\* The state after NewToken().
Init ==
  /\ t = NewToken
  /\ issued = {}
  /\ last = NoCall
  /\ wire = << >>
  /\ signedAs = NeverSigned

AddScope(scope) ==
  LET r == AddScopeOp(t, scope) IN
  /\ t' = r.tok
  /\ last' = [Call("AddScope") EXCEPT !.scope = scope, !.panic = r.panic]
  /\ UNCHANGED <<issued, wire, signedAs>>

RemoveScope(scope) ==
  LET r == RemoveScopeOp(t, scope) IN
  /\ t' = r.tok
  /\ last' = [Call("RemoveScope") EXCEPT !.scope = scope, !.panic = r.panic]
  /\ UNCHANGED <<issued, wire, signedAs>>

HasScope(scope) ==
  /\ last' = [Call("HasScope") EXCEPT !.scope = scope, !.ok = HasScopeOp(t, scope)]
  /\ UNCHANGED <<t, issued, wire, signedAs>>

AddClaim(name, value) ==
  LET r == AddClaimOp(t, name, value) IN
  /\ t' = r.tok
  /\ last' = [Call("AddClaim") EXCEPT !.name = name, !.value = value, !.panic = r.panic]
  /\ UNCHANGED <<issued, wire, signedAs>>

RemoveClaim(name) ==
  LET r == RemoveClaimOp(t, name) IN
  /\ t' = r.tok
  /\ last' = [Call("RemoveClaim") EXCEPT !.name = name, !.panic = r.panic]
  /\ UNCHANGED <<issued, wire, signedAs>>

GetClaim(name) ==
  LET r == GetClaimOp(t, name) IN
  /\ last' = [Call("GetClaim") EXCEPT !.name = name, !.ok = r.ok, !.retValue = r.value]
  /\ UNCHANGED <<t, issued, wire, signedAs>>

GetStringClaim(name) ==
  LET r == GetStringClaimOp(t, name) IN
  /\ last' = [Call("GetStringClaim") EXCEPT !.name = name, !.ok = r.ok, !.retText = r.str]
  /\ UNCHANGED <<t, issued, wire, signedAs>>

\* The pair a successful ES256 signing issues.
Issue(signer, input, outcome) ==
  [key |-> signer.key, hash |-> Sum256(input), r |-> outcome.r, s |-> outcome.s]

\* The input Token.Sign would hand to the signer.
SignInput(tok, signer) ==
  serializeHeaderAndBody(MakeHeader(SignerAlgorithm(signer), tok.Header.Type), tok.Body).text

Sign(signer) ==
  \E outcome \in SignerOutcomes(signer, SignInput(t, signer)) :
    LET r == SignOp(t, signer, outcome) IN
    /\ t' = r.tok
    /\ issued' = IF r.called /\ r.err = "nil" /\ signer.impl = "ES256Signer"
                   THEN issued \cup { Issue(signer, r.input, outcome) }
                   ELSE issued
    /\ last' = [Call("Sign") EXCEPT
                  !.signer = signer, !.err = r.err, !.called = r.called, !.input = r.input,
                  !.bytes = IF r.called THEN SignerSign(signer, r.input, outcome).sig
                            ELSE NilBytes]
    /\ signedAs' = IF r.err = "nil"
                     THEN [done |-> TRUE, signer |-> signer, input |-> r.input,
                           tok |-> r.tok]
                     ELSE signedAs
    /\ UNCHANGED wire

Verify(verifier) ==
  LET r == VerifyOp(t, verifier) IN
  /\ last' = [Call("Verify") EXCEPT !.verifier = verifier, !.ok = r.ok,
                                    !.called = r.called, !.input = r.input]
  /\ UNCHANGED <<t, issued, wire, signedAs>>

Serialize ==
  LET r == SerializeOp(t) IN
  /\ wire' = r.text
  /\ last' = [Call("Serialize") EXCEPT !.retText = r.text,
                                       !.err = IF r.ok THEN "nil"
                                               ELSE "json.UnsupportedTypeError"]
  /\ UNCHANGED <<t, issued, signedAs>>

\* The caller parses the text Serialize returned and goes on with the
\* token Parse returns.
ParseWire ==
  /\ last.op = "Serialize" /\ last.err = "nil"
  /\ \E r \in { Parse(wire) } :
       /\ t' = IF r.nil THEN t ELSE r.tok
       /\ last' = [Call("Parse") EXCEPT !.err = r.err, !.input = wire]
  /\ UNCHANGED <<issued, wire, signedAs>>

\* The caller parses the text it received, and goes on with the token
\* Parse returns when it returns one (ok tells whether it did).
ParseText ==
  \E r \in { Parse(wire) } :
    /\ t' = IF r.nil THEN t ELSE r.tok
    /\ last' = [Call("Parse") EXCEPT !.err = r.err, !.input = wire, !.ok = ~r.nil]
    /\ UNCHANGED <<issued, wire, signedAs>>

\* The caller has the signer of the latest Sign sign the token's present
\* header and body once more (as signing a copy of the token does), and
\* keeps the bytes.
SignAgain ==
  LET input == serializeHeaderAndBody(t.Header, t.Body) IN
  /\ signedAs.done /\ IsSigned(t) /\ input.ok
  /\ \E outcome \in SignerOutcomes(signedAs.signer, input.text) :
       LET r == SignerSign(signedAs.signer, input.text, outcome) IN
       /\ r.err = "nil"
       /\ issued' = IF signedAs.signer.impl = "ES256Signer"
                      THEN issued \cup { Issue(signedAs.signer, input.text, outcome) }
                      ELSE issued
       /\ last' = [Call("signer.Sign") EXCEPT !.signer = signedAs.signer,
                                             !.input = input.text, !.bytes = r.sig,
                                             !.called = TRUE]
  /\ UNCHANGED <<t, wire, signedAs>>

\* The caller stores other bytes in the exported Signature field of a
\* signed token.
SetSignature(bytes) ==
  /\ IsSigned(t) /\ ~bytes.nil /\ bytes # t.Signature
  /\ t' = [t EXCEPT !.Signature = bytes]
  /\ last' = [Call("SetSignature") EXCEPT !.bytes = bytes]
  /\ UNCHANGED <<issued, wire, signedAs>>

\* The caller has the ES256 signer of a key pair sign a text, ecdsa.Sign
\* returning the pair (r, s).
ES256Sign(key, text, r, s) ==
  LET outcome == [err |-> FALSE, r |-> r, s |-> s, sig |-> NilBytes]
      signed  == ES256SignerSign(key, text, outcome)
  IN  /\ issued' = issued \cup { Issue(ES256Signer(key), text, outcome) }
      /\ last' = [Call("ES256Signer.Sign") EXCEPT !.signer = ES256Signer(key),
                                                  !.input = text, !.bytes = signed.sig,
                                                  !.err = signed.err, !.called = TRUE]
      /\ UNCHANGED <<t, wire, signedAs>>

\* The caller has the ES256 verifier of a key pair check a signature for a text.
ES256Verify(key, text, signature) ==
  /\ last' = [Call("ES256Verifier.Verify") EXCEPT
                !.verifier = ES256Verifier(key), !.input = text, !.bytes = signature,
                !.called = TRUE, !.ok = ES256VerifierVerify(key, text, signature.b)]
  /\ UNCHANGED <<t, issued, wire, signedAs>>

\* t.IsSigned(), called by the caller.
CallIsSigned ==
  /\ last' = [Call("IsSigned") EXCEPT !.ok = IsSigned(t)]
  /\ UNCHANGED <<t, issued, wire, signedAs>>

(***************************************************************************)
(* Specifications.  Each draws the inputs of the calls from small sets.    *)
(***************************************************************************)

\* The longest scope list AddScope builds, in SpecScopes and elsewhere.
MaxScopes == 3
FewScopes == 1

ScopeInputs == { <<"a">>, <<" ", "a", " ">>, <<"b">> }
Iss         == <<"i", "s", "s">>
Exp         == <<"e", "x", "p">>
ClaimNames  == { Iss, Exp, ScopeKey }
ClaimValues == { GoString(<<"a">>), GoInt(1) }
\* What AddClaim is offered under the reserved name.
ScopeClaimValues == { GoStringSlice(<< <<"b">> >>), GoString(<<"a">>) }

\* AddScope may add to the list while it is shorter than max.
ListBelow(max) == IsSigned(t) \/ Len(ScopesOf(t).ss) < max

\* The scope list of a token that is built, signed and queried.
NextScopes ==
  \/ \E scope \in ScopeInputs : ListBelow(MaxScopes) /\ AddScope(scope)
  \/ \E scope \in ScopeInputs : RemoveScope(scope)
  \/ \E scope \in ScopeInputs : HasScope(scope)
  \/ Sign(ES256Signer(1))

SpecScopes == Init /\ [][NextScopes]_vars

\* The claims of a token, before and after it is signed.
NextClaims ==
  \/ \E name \in ClaimNames :
       \E value \in (IF name = ScopeKey THEN ScopeClaimValues ELSE ClaimValues) :
         AddClaim(name, value)
  \/ \E name \in ClaimNames : RemoveClaim(name)
  \/ \E name \in ClaimNames : GetClaim(name)
  \/ \E name \in ClaimNames : GetStringClaim(name)
  \/ ListBelow(FewScopes) /\ AddScope(<<"a">>)
  \/ Sign(ES256Signer(1))

SpecClaims == Init /\ [][NextClaims]_vars

\* Signing and verifying.  The token is built as a literal with a header
\* type of the caller's choice, a claim and a scope are added, and it is
\* signed and verified with every signer and verifier.
HeaderTypes == { JWT, <<"a", "t">> }
Keys        == 1..NumKeys
Signers     == { ES256Signer(k) : k \in Keys } \cup { OtherSigner }
Verifiers   == { ES256Verifier(k) : k \in Keys } \cup { AcceptAll }

InitSign ==
  /\ t \in { MakeToken(MakeHeader(None, typ), MakeBody(EmptyMap), NilBytes) :
               typ \in HeaderTypes }
  /\ issued = {}
  /\ last = NoCall
  /\ wire = << >>
  /\ signedAs = NeverSigned

NextSign ==
  \/ \E value \in { GoString(<<"a">>), GoChan } : AddClaim(Iss, value)
  \/ ListBelow(FewScopes) /\ AddScope(<<"a">>)
  \/ \E signer \in Signers : Sign(signer)
  \/ \E verifier \in Verifiers : Verify(verifier)

SpecSign == InitSign /\ [][NextSign]_vars

\* Tampering.  A token is signed with the signer of key pair 1; the caller
\* then changes a claim, has the signer sign again, or stores other bytes
\* in the Signature field, and verifies.
ES256Encoding(r, s) == Bytes(LeftPad(BigBytes(r)) \o LeftPad(BigBytes(s)))

\* The bytes the caller may store: too short a signature, and every
\* signature a signer has issued.
TamperBytes == { Bytes(<<1, 2, 3, 4>>) } \cup { ES256Encoding(i.r, i.s) : i \in issued }

NextTamper ==
  \/ \E value \in { GoInt(1), GoString(<<"a">>) } : AddClaim(Iss, value)
  \/ RemoveClaim(Iss)
  \/ Sign(ES256Signer(1))
  \/ SignAgain
  \/ \E bytes \in TamperBytes : SetSignature(bytes)
  \/ \E key \in Keys : Verify(ES256Verifier(key))

SpecTamper == Init /\ [][NextTamper]_vars

\* The wire.  The token is a literal with any header, body and signature;
\* it is serialized, and the text is parsed into the token the receiving
\* side goes on with.
Key1 == <<"K", "e", "y", "1">>

WireHeaders == { MakeHeader(ES256, JWT), MakeHeader(None, <<"<", "\"">>) }

\* The values a claim of a literal token holds: every dynamic type Unmarshal
\* yields, and a text with characters Marshal escapes.
WireValues ==
  { GoString(<<"V", "\\", "&">>), GoFloat64(1), GoBool(TRUE), GoNil,
    GoSlice(<<GoString(<<"x">>), GoFloat64(0)>>),
    GoMap(<< <<"k">> >>, <<GoString(<< >>)>>) }

WireBodies ==
  { NilBody, MakeBody(EmptyMap), MakeBody([ k \in {ScopeKey} |-> GoStringSlice(<< <<"a">> >>) ]) }
    \cup { MakeBody([ k \in {Key1} |-> v ]) : v \in WireValues }
    \cup { MakeBody([ k \in {Key1, ScopeKey} |->
                        IF k = Key1 THEN v ELSE GoStringSlice(<< <<"a">>, <<"b">> >>) ]) :
             v \in WireValues }

WireSignatures == { NilBytes, Bytes(<< >>), Bytes(<<1, 2, 3, 4>>), Bytes(<<255, 0>>) }

InitWire ==
  /\ t \in { MakeToken(h, b, sig) : h \in WireHeaders, b \in WireBodies,
                                    sig \in WireSignatures }
  /\ issued = {}
  /\ last = NoCall
  /\ wire = << >>
  /\ signedAs = NeverSigned

NextWire ==
  \/ Serialize
  \/ ParseWire

SpecWire == InitWire /\ [][NextWire]_vars

\* Parsing of received texts.  A text is up to MaxSegments segments joined
\* by dots; a segment is the encoding of a JSON text or no encoding at all.
MaxSegments == 4

B64OfText(text) == B64Encode(BytesOf(text))

ParseSegments ==
  { << >>,
    B64OfText(MarshalHeader(MakeHeader(ES256, JWT)).text),
    B64OfText(<<"{", "}">>),
    B64OfText(<<"n", "u", "l", "l">>),
    B64OfText(<<"[", "]">>),
    B64OfText(<<"{", "\"", "A", "L", "G", "\"", ":", "1", "}">>),
    B64OfText(<<"{">>),
    <<"A", "A", "=">>,
    <<"A">> }

\* The segments of the texts that do not have three of them.
FewSegments == { B64OfText(<<"{", "}">>), <<"A">> }

RECURSIVE JoinDots(_)
JoinDots(segs) ==
  IF Len(segs) = 1 THEN segs[1] ELSE segs[1] \o <<".">> \o JoinDots(Tail(segs))

ParseTexts ==
  { << >> }
    \cup { JoinDots(segs) : segs \in [1..3 -> ParseSegments] }
    \cup { JoinDots(segs) : segs \in UNION { [1..n -> FewSegments] : n \in 1..MaxSegments } }

\* A text has been received, and no call has been made yet.
InitParse ==
  /\ t = NewToken
  /\ issued = {}
  /\ last = NoCall
  /\ wire \in ParseTexts
  /\ signedAs = NeverSigned

NextParse == last.op = "NewToken" /\ ParseText

SpecParse == InitParse /\ [][NextParse]_vars

\* The ES256 signature encoding.  One text is signed, ecdsa.Sign returning
\* any pair of the numbers below; the signature and variants of it are then
\* verified for that text and for another one.
WideNumbers ==
  LET Top(word, rest) == [ i \in 1..(ES256HalfLen \div 2) |->
                             IF i = ES256HalfLen \div 2 THEN word ELSE rest ]
  IN  { Zero, <<1>>, <<256>>, <<0, 1>>,
        Top(255, 4660), Top(256, 0), Top(32768, 0), Top(65535, 65535) }

SignedText == <<"e", "y", "J", "9", ".", "e", "3", "0">>

VerifiedTexts == { SignedText, <<"e", "y", "J", "9", ".", "e", "3", "1">> }

\* The signature of an issued pair, that signature with a byte less or more,
\* the two numbers without their padding, one half alone, and no bytes.
SignatureForms ==
  UNION { LET e == ES256Encoding(i.r, i.s).b
          IN  { Bytes(e), Bytes(Tail(e)), Bytes(<<0>> \o e),
                Bytes(BigBytes(i.r) \o BigBytes(i.s)),
                Bytes(SubSeq(e, 1, ES256HalfLen)), Bytes(<< >>) }
          : i \in issued }

NextEncoding ==
  \/ /\ issued = {}
     /\ \E key \in Keys, r \in WideNumbers, s \in WideNumbers :
          ES256Sign(key, SignedText, r, s)
  \/ \E key \in Keys, text \in VerifiedTexts, signature \in SignatureForms :
       ES256Verify(key, text, signature)

SpecEncoding == Init /\ [][NextEncoding]_vars

\* The life of a token: every method, on a token made by NewToken, with
\* one scope, one claim, an ES256 signer and the other signer.
NextLife ==
  \/ ListBelow(FewScopes) /\ AddScope(<<"a">>)
  \/ RemoveScope(<<"a">>)
  \/ HasScope(<<"a">>)
  \/ AddClaim(Iss, GoString(<<"a">>))
  \/ RemoveClaim(Iss)
  \/ GetClaim(Iss)
  \/ GetStringClaim(Iss)
  \/ CallIsSigned
  \/ \E signer \in { ES256Signer(1), OtherSigner } : Sign(signer)
  \/ Verify(ES256Verifier(1))
  \/ Serialize

SpecLife == Init /\ [][NextLife]_vars

\* A token is issued, sent and received.  The issuer builds the token, signs
\* it or leaves it unsigned, and serializes it; the receiver parses the text
\* and calls one method on the token Parse returned, or serializes it again.
\* BigId is 2^53 + 1, an id that takes all 64 bits of an int64 claim to hold.
BigId == <<"9", "0", "0", "7", "1", "9", "9", "2", "5", "4", "7", "4", "0", "9", "9", "3">>

SentValues == { GoString(<<"V", "&">>), GoInt(1), GoInt64(BigId) }
SentScopes == { <<"a">>, <<" ", "b">> }

\* Nothing was serialized yet: the token is still with its issuer.
Sending == wire = << >>

\* The token is the one Parse has just returned.
Received == last.op = "Parse" /\ last.err = "nil"

NextExchange ==
  \/ Sending /\ ListBelow(FewScopes) /\ \E scope \in SentScopes : AddScope(scope)
  \/ Sending /\ \E value \in SentValues : AddClaim(Iss, value)
  \/ Sending /\ \E key \in Keys : Sign(ES256Signer(key))
  \/ Sending /\ Serialize
  \/ ParseWire
  \/ Received /\ \E scope \in SentScopes : AddScope(scope)
  \/ Received /\ \E scope \in SentScopes : RemoveScope(scope)
  \/ Received /\ \E scope \in SentScopes : HasScope(scope)
  \/ Received /\ CallIsSigned
  \/ Received /\ \E signer \in Signers : Sign(signer)
  \/ Received /\ \E verifier \in Verifiers : Verify(verifier)
  \/ Received /\ Serialize

SpecExchange == Init /\ [][NextExchange]_vars

(***************************************************************************)
(* Claims                                                                  *)
(***************************************************************************)

\* The scope list of a token, empty when it has none.
ScopeList(tok) == ScopesOf(tok).ss

\* How often v stands in the list ss.
Count(ss, v) == Cardinality({ i \in 1..Len(ss) : ss[i] = v })

\* The texts a scope query is made with.
ScopeQueries == ScopeInputs \cup { TrimSpace(x) : x \in ScopeInputs }

\* C3: on a signed token AddScope(x) and RemoveScope(x) change nothing: the
\* header, the whole body (the scope list in it) and the signature are as
\* before the call, and HasScope answers every query as it did before.
C3_ScopesFrozenWhenSigned ==
  (last.op \in {"AddScope", "RemoveScope"} /\ IsSigned(last.pre))
    => /\ t.Header = last.pre.Header
       /\ t.Body = last.pre.Body
       /\ t.Signature = last.pre.Signature
       /\ ~last.panic
       /\ \A q \in ScopeQueries : HasScopeOp(t, q) = HasScopeOp(last.pre, q)

\* A signed token holding scope "a" on which RemoveScope(" a ") was called.
C3_Witness ==
  /\ last.op = "RemoveScope" /\ IsSigned(last.pre)
  /\ last.scope = <<" ", "a", " ">>
  /\ HasScopeOp(last.pre, <<"a">>)

\* C10: on an unsigned token AddScope(x) appends trim(x), also when the list
\* already holds it; RemoveScope(x) of a value the list holds puts the last
\* element at the first position holding trim(x) and drops the last
\* position, so that one occurrence of trim(x) is gone and every other
\* value is held as often as before; RemoveScope(x) of a value the list
\* does not hold changes nothing.
C10_ScopeListAddRemove ==
  LET before == ScopeList(last.pre)
      after  == ScopeList(t)
      x      == TrimSpace(last.scope)
      first  == CHOOSE i \in 1..Len(before) :
                  before[i] = x /\ \A m \in 1..(i - 1) : before[m] # x
      others == [last.pre EXCEPT !.Body.m = MapDelete(@, ScopeKey)]
  IN   /\ (last.op = "AddScope" /\ ~IsSigned(last.pre))
           => /\ ScopesOf(t).ok
              /\ after = Append(before, x)
              /\ [t EXCEPT !.Body.m = MapDelete(@, ScopeKey)] = others
       /\ (last.op = "RemoveScope" /\ ~IsSigned(last.pre) /\ Count(before, x) > 0)
           => /\ ScopesOf(t).ok
              /\ Len(after) = Len(before) - 1
              /\ \A m \in 1..Len(after) :
                   after[m] = IF m = first THEN before[Len(before)] ELSE before[m]
              /\ \A v \in ScopeQueries :
                   Count(after, v) = Count(before, v) - (IF v = x THEN 1 ELSE 0)
              /\ [t EXCEPT !.Body.m = MapDelete(@, ScopeKey)] = others
       /\ (last.op = "RemoveScope" /\ ~IsSigned(last.pre) /\ Count(before, x) = 0)
           => t = last.pre

\* RemoveScope(" a ") on an unsigned token whose list held "a" twice, the
\* first time not at the end, and something else as well.
C10_Witness ==
  /\ last.op = "RemoveScope" /\ ~IsSigned(last.pre)
  /\ last.scope = <<" ", "a", " ">>
  /\ Count(ScopeList(last.pre), <<"a">>) = 2
  /\ Count(ScopeList(last.pre), <<"b">>) = 1
  /\ ScopeList(last.pre)[3] = <<"b">>

\* C5: AddClaim("scope", x) and RemoveClaim("scope") leave the token as it
\* was, and GetClaim("scope") and GetStringClaim("scope") report absent,
\* with or without scopes in the body, signed or not.
C5_ScopeIsolation ==
  /\ (last.op \in {"AddClaim", "RemoveClaim"} /\ last.name = ScopeKey)
       => (t = last.pre /\ ~last.panic)
  /\ (last.op = "GetClaim" /\ last.name = ScopeKey)
       => (~last.ok /\ last.retValue = GoNil /\ t = last.pre)
  /\ (last.op = "GetStringClaim" /\ last.name = ScopeKey)
       => (~last.ok /\ last.retText = << >> /\ t = last.pre)

\* GetClaim("scope") on a signed token whose body holds a scope list.
C5_Witness ==
  /\ last.op = "GetClaim" /\ last.name = ScopeKey
  /\ IsSigned(t) /\ ScopesOf(t).ok /\ Len(ScopeList(t)) > 0

\* C9: for a name other than "scope", AddClaim(name, v) makes GetClaim(name)
\* return (v, present) whatever was stored before, RemoveClaim(name) makes
\* it report absent, both leave every other entry of the body alone, and
\* GetStringClaim(name) returns the value exactly when the claim is present
\* and holds a string.
C9_ClaimStore ==
  LET rest(tok) == [ k \in (DOMAIN tok.Body.m) \ {last.name} |-> tok.Body.m[k] ]
  IN   /\ (last.op = "AddClaim" /\ last.name # ScopeKey)
           => /\ GetClaimOp(t, last.name) = [value |-> last.value, ok |-> TRUE]
              /\ rest(t) = rest(last.pre)
              /\ ScopesOf(t) = ScopesOf(last.pre)
       /\ (last.op = "RemoveClaim" /\ last.name # ScopeKey)
           => /\ ~GetClaimOp(t, last.name).ok
              /\ rest(t) = rest(last.pre)
              /\ ScopesOf(t) = ScopesOf(last.pre)
       /\ (last.op = "GetStringClaim" /\ last.name # ScopeKey)
           => /\ last.ok = (/\ last.name \in DOMAIN t.Body.m
                            /\ t.Body.m[last.name].k = "string")
              /\ (last.ok => last.retText = t.Body.m[last.name].s)
              /\ t = last.pre

\* AddClaim over a claim that held another value, in a body holding a
\* second claim and a scope list.
C9_Witness ==
  /\ last.op = "AddClaim" /\ last.name = Iss
  /\ Iss \in DOMAIN last.pre.Body.m /\ last.pre.Body.m[Iss] # last.value
  /\ Exp \in DOMAIN t.Body.m /\ ScopesOf(t).ok

\* C1: Sign of an unsigned token with a key pair's signer succeeds (the body
\* being JSON-serializable and the signing backend not failing) and Verify
\* with the same key pair's verifier is then true; the input Sign handed to
\* the signer is the text Verify recomputes from the token's header and body.
C1_SignThenVerify ==
  (/\ last.op = "Sign" /\ ~IsSigned(last.pre)
   /\ last.signer.impl = "ES256Signer"
   /\ MarshalBody(last.pre.Body).ok
   /\ last.err # "ecdsa error")
    => /\ last.err = "nil" /\ last.called
       /\ IsSigned(t)
       /\ last.input = serializeHeaderAndBody(t.Header, t.Body).text
       /\ VerifyOp(t, ES256Verifier(last.signer.key)).input = last.input
       /\ VerifyOp(t, ES256Verifier(last.signer.key)).ok

\* A token with another header type than "JWT", a claim and a scope, just
\* signed with the signer of key pair 2.
C1_Witness ==
  /\ last.op = "Sign" /\ last.err = "nil" /\ last.signer = ES256Signer(2)
  /\ last.pre.Header = MakeHeader(None, <<"a", "t">>)
  /\ Iss \in DOMAIN t.Body.m /\ Len(ScopeList(t)) > 0

\* C4: Sign on a signed token returns ErrImmutable without calling the
\* signer and leaves header, body and signature as they were, whichever
\* signer is passed.
C4_DoubleSignRejected ==
  (last.op = "Sign" /\ IsSigned(last.pre))
    => /\ last.err = "ErrImmutable"
       /\ ~last.called
       /\ t.Header = last.pre.Header
       /\ t.Body = last.pre.Body
       /\ t.Signature = last.pre.Signature

\* Sign with a signer of another algorithm on a token an ES256 signer signed.
C4_Witness ==
  /\ last.op = "Sign" /\ IsSigned(last.pre)
  /\ last.signer = OtherSigner
  /\ signedAs.done /\ signedAs.signer = ES256Signer(1)
  /\ last.pre.Header.Algorithm = ES256

\* The error the signer's backend reports when it fails.
SignerError(signer) == IF signer.impl = "ES256Signer" THEN "ecdsa error" ELSE "signer error"

\* C7: when the signer returns an error, or the canonical input cannot be
\* built, Sign returns that error and the token's header (its algorithm),
\* body and signature are unchanged: the token is still unsigned, and a Sign
\* whose signer does not fail still succeeds.
C7_FailedSignLeavesToken ==
  (last.op = "Sign" /\ last.err \notin {"nil", "ErrImmutable"})
    => /\ t = last.pre
       /\ ~IsSigned(t)
       /\ last.called => /\ last.err = SignerError(last.signer)
                         /\ \E outcome \in SignerOutcomes(last.signer,
                                                          SignInput(t, last.signer)) :
                              SignOp(t, last.signer, outcome).err = "nil"
       /\ ~last.called => /\ last.err = "json.UnsupportedTypeError"
                          /\ ~MarshalBody(last.pre.Body).ok

\* A Sign with an ES256 signer whose backend failed, on a token holding a claim.
C7_Witness ==
  /\ last.op = "Sign" /\ last.err = "ecdsa error" /\ last.called
  /\ Iss \in DOMAIN last.pre.Body.m

\* C8: Verify on an unsigned token is false for every verifier and does not
\* call the verifier; Verify never changes the token and yields no error.
C8_VerifyUnsigned ==
  (last.op = "Verify")
    => /\ t = last.pre
       /\ last.err = "nil" /\ ~last.panic
       /\ ~IsSigned(last.pre) => (~last.ok /\ ~last.called)

\* Verify of an unsigned token with the verifier that accepts everything.
C8_Witness ==
  /\ last.op = "Verify" /\ ~IsSigned(last.pre) /\ last.verifier = AcceptAll
  /\ ~last.ok

\* A Verify with the verifier of the key pair whose signer signed the token.
VerifiedWithSigningKey ==
  /\ last.op = "Verify" /\ IsSigned(t)
  /\ signedAs.done /\ signedAs.signer.impl = "ES256Signer"
  /\ last.verifier = ES256Verifier(signedAs.signer.key)

\* C2 as stated: after a successful Sign, once the body is another value
\* or the signature holds other bytes, Verify with the original key pair's
\* verifier is false.
C2_AnyChangeFailsVerify ==
  (/\ VerifiedWithSigningKey
   /\ (t.Body # signedAs.tok.Body \/ t.Signature # signedAs.tok.Signature))
    => ~last.ok

\* C2, amended: after a successful Sign, Verify with the original key
\* pair's verifier is false when the body's JSON encoding differs from the
\* one signed and the signature is the one Sign stored, and when the
\* signature has been replaced by bytes of another length than 64 or by a
\* signature issued for another input.
C2_TamperDetected ==
  LET input == serializeHeaderAndBody(t.Header, t.Body).text
      key   == signedAs.signer.key
  IN  VerifiedWithSigningKey
        => /\ (/\ MarshalBody(t.Body).text # MarshalBody(signedAs.tok.Body).text
               /\ t.Signature = signedAs.tok.Signature)
                => ~last.ok
           /\ Len(t.Signature.b) # ES256SigLen => ~last.ok
           /\ (\E i \in issued :
                 /\ t.Signature = ES256Encoding(i.r, i.s)
                 /\ (i.key # key \/ i.hash # Sum256(input)))
                => ~last.ok

\* A Verify, false, of a token whose claim was replaced by one with another
\* JSON encoding after it was signed, the signature untouched.
C2_Witness ==
  /\ VerifiedWithSigningKey /\ ~last.ok
  /\ Iss \in DOMAIN t.Body.m /\ Iss \in DOMAIN signedAs.tok.Body.m
  /\ MarshalBody(t.Body).text # MarshalBody(signedAs.tok.Body).text
  /\ t.Signature = signedAs.tok.Signature

\* C6: Serialize of any token succeeds, and Parse of the text succeeds and
\* returns a token with an equal header (algorithm and type), an equal
\* value under every claim name of the body, and the same signature bytes.
C6_WireRoundTrip ==
  /\ (last.op = "Serialize") => last.err = "nil"
  /\ (last.op = "Parse")
       => /\ last.err = "nil"
          /\ t.Header = last.pre.Header
          /\ \A name \in DOMAIN last.pre.Body.m :
               name \in DOMAIN t.Body.m /\ t.Body.m[name] = last.pre.Body.m[name]
          /\ t.Signature.b = last.pre.Signature.b

\* A segment RawURLEncoding decodes: characters of the URL-safe alphabet
\* only (no padding), and not a lone character left over.
ValidSegment(seg) == (\A i \in 1..Len(seg) : seg[i] \in B64Chars) /\ Len(seg) % 4 # 1

\* The JSON value a valid segment holds.
SegmentJson(seg) == ReadJson(TextOf(B64Decode(seg).b))

\* A body segment of the expected shape: a JSON object (or null, which
\* Unmarshal accepts for every destination).
BodyShape(r) == r.ok /\ r.j.k \in {"object", "null"}

\* A header segment of the expected shape: a JSON object whose "alg" and
\* "typ" members, when it has them, are strings (or null).
HeaderShape(r) ==
  /\ BodyShape(r)
  /\ \A i \in 1..Len(r.j.keys) :
       (KeyMatches(r.j.keys[i], <<"a", "l", "g">>) \/ KeyMatches(r.j.keys[i], <<"t", "y", "p">>))
         => r.j.l[i].k \in {"string", "null"}

\* C11: Parse returns ErrInvalidTokenStructure exactly when the text does
\* not split at the dots into three segments; else a decode error when one
\* of the three segments is not unpadded base64url, whatever the other
\* segments hold; else a format error when the header or the body segment
\* is not JSON of the expected shape; else it succeeds.  With an error no
\* token is returned.
C11_ParseErrors ==
  (last.op = "Parse")
    => \A spl \in { Split(last.input) } :
         /\ (last.err = "ErrInvalidTokenStructure") = (Len(spl) # 3)
         /\ Len(spl) = 3 =>
              \A valid \in { \A i \in 1..3 : ValidSegment(spl[i]) } :
                /\ (last.err = "base64.CorruptInputError") = ~valid
                /\ valid =>
                     (last.err = "json error")
                       = ~(HeaderShape(SegmentJson(spl[1])) /\ BodyShape(SegmentJson(spl[2])))
         /\ last.ok = (last.err = "nil")
         /\ ~last.ok => t = last.pre

\* A Parse that reports a decode error for a text whose header segment is
\* not JSON and whose signature segment is not base64url.
C11_Witness ==
  /\ last.op = "Parse" /\ last.err = "base64.CorruptInputError"
  /\ Split(last.input)[1] = B64OfText(<<"{">>)
  /\ Split(last.input)[3] = <<"A", "A", "=">>

\* Word j (the least significant is word 1) of the number n.
WordOf(n, j) == IF j <= Len(n) THEN n[j] ELSE 0

\* Word j of the big-endian unsigned integer that the ES256HalfLen bytes
\* after position off of b hold.
WordAt(b, off, j) ==
  b[off + ES256HalfLen - 2 * j + 1] * 256 + b[off + ES256HalfLen - 2 * j + 2]

\* C12: for a pair (r, s) below 2^256 the ES256 signer returns 64 bytes,
\* the first 32 holding r and the last 32 holding s as big-endian unsigned
\* integers with zero bytes in front; the verifier's two halves are r and s
\* again, so it accepts that signature for the signed text and the key, and
\* it returns false for every signature whose length is not 64.
C12_ES256Encoding ==
  /\ (last.op = "ES256Signer.Sign")
       => \A i \in issued :
            LET sig == last.bytes.b IN
            /\ last.err = "nil" /\ ~last.bytes.nil
            /\ Len(sig) = ES256SigLen
            /\ \A j \in 1..(ES256HalfLen \div 2) :
                 /\ WordAt(sig, 0, j) = WordOf(i.r, j)
                 /\ WordAt(sig, ES256HalfLen, j) = WordOf(i.s, j)
            /\ SetBytes(SubSeq(sig, 1, ES256HalfLen)) = i.r
            /\ SetBytes(SubSeq(sig, ES256HalfLen + 1, ES256SigLen)) = i.s
            /\ ES256VerifierVerify(i.key, last.input, sig)
  /\ (last.op = "ES256Verifier.Verify")
       => /\ Len(last.bytes.b) # ES256SigLen => ~last.ok
          /\ last.ok = \E i \in issued :
                         /\ i.key = last.verifier.key
                         /\ i.hash = Sum256(last.input)
                         /\ Len(last.bytes.b) = ES256SigLen
                         /\ SetBytes(SubSeq(last.bytes.b, 1, ES256HalfLen)) = i.r
                         /\ SetBytes(SubSeq(last.bytes.b, ES256HalfLen + 1, ES256SigLen)) = i.s

\* A signature accepted by the verifier whose r is 1 (31 zero bytes in
\* front) and whose s takes all 32 bytes.
C12_Witness ==
  /\ last.op = "ES256Verifier.Verify" /\ last.ok
  /\ \E i \in issued : i.r = <<1>> /\ Len(BigBytes(i.s)) = ES256HalfLen

\* C13: on a signed token AddClaim(name, v) and RemoveClaim(name), name not
\* "scope", change the body as they do on an unsigned token, while the
\* token stays signed with the header and the signature bytes it had; when
\* the token verified before the call and the body's JSON encoding is now
\* another one, it no longer verifies.
C13_ClaimsMutableWhenSigned ==
  (last.op \in {"AddClaim", "RemoveClaim"} /\ last.name # ScopeKey /\ IsSigned(last.pre))
    => LET unsigned == [last.pre EXCEPT !.Signature = NilBytes]
           verifier == ES256Verifier(signedAs.signer.key)
       IN  /\ last.op = "AddClaim"
                => /\ t.Body = AddClaimOp(unsigned, last.name, last.value).tok.Body
                   /\ GetClaimOp(t, last.name) = [value |-> last.value, ok |-> TRUE]
           /\ last.op = "RemoveClaim"
                => /\ t.Body = RemoveClaimOp(unsigned, last.name).tok.Body
                   /\ last.name \notin DOMAIN t.Body.m
           /\ \A k \in (DOMAIN t.Body.m \cup DOMAIN last.pre.Body.m) \ {last.name} :
                k \in DOMAIN t.Body.m /\ k \in DOMAIN last.pre.Body.m
                  /\ t.Body.m[k] = last.pre.Body.m[k]
           /\ IsSigned(t)
           /\ t.Header = last.pre.Header
           /\ t.Signature = last.pre.Signature
           /\ (/\ VerifyOp(last.pre, verifier).ok
               /\ MarshalBody(t.Body).text # MarshalBody(last.pre.Body).text)
                => ~VerifyOp(t, verifier).ok

\* An AddClaim on a signed token that verified before the call and does not
\* verify after it.
C13_Witness ==
  /\ last.op = "AddClaim" /\ IsSigned(last.pre) /\ IsSigned(t)
  /\ VerifyOp(last.pre, ES256Verifier(signedAs.signer.key)).ok
  /\ ~VerifyOp(t, ES256Verifier(signedAs.signer.key)).ok

\* C14: from NewToken on, under calls of the token's methods, the signature
\* goes from absent to present only in a Sign that returns no error, a Sign
\* returns no error at most once, and once the token is signed its
\* signature bytes and its header stay as they are.
C14_SignedOnce ==
  [][ /\ (~IsSigned(t) /\ IsSigned(t')) => (last'.op = "Sign" /\ last'.err = "nil")
      /\ (last'.op = "Sign" /\ last'.err = "nil" /\ last' # last) => ~signedAs.done
      /\ IsSigned(t) => (t'.Signature = t.Signature /\ t'.Header = t.Header)
    ]_vars

\* C15: after a Sign that returns no error the header's algorithm is the
\* one the signer reports, whatever it was before, the header's type is
\* the type the token had before the call, the signature is the bytes the
\* signer returned, and the body is the body the token had before the call.
C15_EffectOfSign ==
  (last.op = "Sign" /\ last.err = "nil")
    => /\ t.Header.Algorithm = SignerAlgorithm(last.signer)
       /\ t.Header.Type = last.pre.Header.Type
       /\ last.called /\ t.Signature = last.bytes
       /\ t.Body = last.pre.Body

\* A token of type "at" with algorithm None, a claim and a scope, signed by
\* the signer of another algorithm, which returned the bytes 1, 2, 3, 4.
C15_Witness ==
  /\ last.op = "Sign" /\ last.err = "nil" /\ last.signer = OtherSigner
  /\ last.pre.Header = MakeHeader(None, <<"a", "t">>)
  /\ t.Header = MakeHeader(HS256, <<"a", "t">>)
  /\ t.Signature = Bytes(<<1, 2, 3, 4>>)
  /\ Iss \in DOMAIN t.Body.m /\ ScopesOf(t).ok

\* The token Parse returns for the text that was serialized.
FromWire(tok) == wire # << >> /\ ~Parse(wire).nil /\ Parse(wire).tok = tok

\* C16: every token a successful Parse returns reports IsSigned true, also
\* the one parsed from the serialization of an unsigned token; Parse
\* consults no signer and no verifier.  On a parsed token AddScope and
\* RemoveScope change nothing, and Sign returns the already-signed error
\* without calling the signer and leaves the token as it is.
C16_ParsedIsSigned ==
  /\ (last.op = "Parse" /\ last.err = "nil") => (IsSigned(t) /\ ~last.called)
  /\ (last.op = "IsSigned" /\ FromWire(last.pre)) => last.ok
  /\ (last.op \in {"AddScope", "RemoveScope"} /\ FromWire(last.pre))
       => (t = last.pre /\ ~last.panic)
  /\ (last.op = "Sign" /\ FromWire(last.pre))
       => (last.err = "ErrImmutable" /\ ~last.called /\ t = last.pre)

\* AddScope was called on the token parsed from the serialization of a token
\* that was never signed: it holds a signature of no bytes, which no verifier
\* of a key accepts, reports signed, and is left unchanged.
C16_Witness ==
  /\ last.op = "AddScope" /\ FromWire(last.pre)
  /\ ~signedAs.done
  /\ last.pre.Signature = Bytes(<< >>)
  /\ ~HasScopeOp(last.pre, last.scope)
  /\ \A key \in Keys : ~VerifyOp(last.pre, ES256Verifier(key)).ok
  /\ IsSigned(t) /\ t = last.pre

\* The entries of the token's scope list, as a set.
StoredScopes(tok) == { ScopesOf(tok).ss[i] : i \in 1..Len(ScopesOf(tok).ss) }

\* C17: HasScope(q) is true exactly when q equals a stored entry, and it
\* leaves the token as it is.  After AddScope(x) on an unsigned token
\* HasScope(trim(x)) is true; a query with surrounding white space is
\* answered false, the stored entries being trimmed.
C17_HasScopeExact ==
  /\ (last.op = "HasScope")
       => /\ t = last.pre
          /\ last.ok <=> (last.scope \in StoredScopes(t))
          /\ (TrimSpace(last.scope) # last.scope) => ~last.ok
  /\ (last.op = "AddScope" /\ ~IsSigned(last.pre))
       => /\ HasScopeOp(t, TrimSpace(last.scope))
          /\ (TrimSpace(last.scope) # last.scope) => ~HasScopeOp(t, last.scope)

\* HasScope(" a ") answered false on an unsigned token whose list holds "a".
C17_Witness ==
  /\ last.op = "HasScope" /\ last.scope = <<" ", "a", " ">> /\ ~last.ok
  /\ ~IsSigned(t)
  /\ <<"a">> \in StoredScopes(t)

\* C18: scopes survive the wire.  When the token that was serialized has
\* the scope s, HasScope(s) on the token Parse returned for the text
\* answers true.
C18_ScopesSurviveWire ==
  [][ (/\ last.op = "Parse" /\ last.err = "nil"
       /\ last'.op = "HasScope"
       /\ HasScopeOp(last.pre, last'.scope))
        => last'.ok
    ]_vars

\* C19: a successful Sign leaves the token signed, whatever the signer:
\* when Sign returns no error IsSigned is true afterwards, and on the token
\* as Sign left it Verify consults the verifier and a second Sign returns
\* ErrImmutable.
C19_SuccessfulSignSigns ==
  [][ /\ (last'.op = "Sign" /\ last'.err = "nil") => IsSigned(t')
      /\ (signedAs.done /\ t = signedAs.tok /\ last'.op = "Verify") => last'.called
      /\ (signedAs.done /\ t = signedAs.tok /\ last'.op = "Sign")
           => last'.err = "ErrImmutable"
    ]_vars

\* C20: issue and accept.  A token is signed with a key pair's signer and
\* serialized as Sign left it; on the token Parse returns for that text,
\* Verify with the same key pair's verifier answers true, and Serialize
\* gives the text back that was parsed.
C20_IssueAndAccept ==
  [][ /\ (/\ last.op = "Parse" /\ last.err = "nil"
          /\ signedAs.done /\ signedAs.tok = last.pre
          /\ last'.op = "Verify"
          /\ last'.verifier = ES256Verifier(signedAs.signer.key))
           => last'.ok
      /\ (/\ last.op = "Parse" /\ last.err = "nil"
          /\ last'.op = "Serialize")
           => (last'.err = "nil" /\ last'.retText = wire)
    ]_vars

====
